---- MODULE Spec2Model ----
(***************************************************************************)
(* The Pokedex API of "API Lesson/main.py": an in-memory dictionary        *)
(* pokemon_db keyed by an integer id, a counter next_id, and the handlers  *)
(* read_root, list_pokemon, get_pokemon, create_pokemon, delete_pokemon.   *)
(*                                                                         *)
(* Spec      runs every handler as one step (requests served one by one).  *)
(* SpecConc  runs the handlers of several worker threads statement by      *)
(*           statement, interleaved, as the threadpool of the hosting      *)
(*           runtime may.                                                  *)
(***************************************************************************)
EXTENDS Integers, Sequences, FiniteSets, TLC

(* Bounds of the model. *)
MaxCreates == 2
NumThreads == 2

(* Field(..., ge=1, le=100) of PokemonCreate.power_level. *)
PowerLevelGe == 1
PowerLevelLe == 100

VARIABLES
    pokemon_db,   \* the dict: a sequence of [key, value] entries in insertion order
    next_id,      \* the global id counter
    pc,           \* per worker thread: the statement its handler is at
    frame,        \* per worker thread: the handler's arguments and locals
    reply,        \* the HTTP exchange completed last: [op, arg, status, body]
    created,      \* history: the bodies of the 201 replies, in order
    removed       \* history: the ids of the 204 replies, in order

vars == <<pokemon_db, next_id, pc, frame, reply, created, removed>>

Threads == 1..NumThreads

----------------------------------------------------------------------------
(* Python's dict, which keeps insertion order. *)

Keys(d) == {d[i].key : i \in DOMAIN d}

\* k in d
Contains(d, k) == k \in Keys(d)

\* a lookup that ignores the key
GetItem_First(d, k) == d[1].value

\* d[k], for k in d
GetItem(d, k) == d[CHOOSE i \in DOMAIN d : d[i].key = k].value

\* d[k] = v: an existing key keeps its place, a new one goes last
SetItem(d, k, v) ==
    IF Contains(d, k)
    THEN [i \in DOMAIN d |-> IF d[i].key = k THEN [key |-> k, value |-> v] ELSE d[i]]
    ELSE Append(d, [key |-> k, value |-> v])

\* a del that drops the newest entry instead of the entry of k
DelItem_PopsLast(d, k) == SubSeq(d, 1, Len(d) - 1)

\* del d[k], for k in d
DelItem(d, k) == SelectSeq(d, LAMBDA e : e.key # k)

\* a listing that loses the oldest entry
Values_SkipsFirst(d) == [i \in 1..(Len(d) - 1) |-> d[i + 1].value]

\* list(d.values())
Values(d) == [i \in DOMAIN d |-> d[i].value]

----------------------------------------------------------------------------
(* datetime.now().isoformat() *)

Digits(n, width) ==
    LET s == ToString(n)
        zeros == [w \in 0..6 |-> CASE w = 0 -> "" [] w = 1 -> "0" [] w = 2 -> "00"
                                   [] w = 3 -> "000" [] w = 4 -> "0000"
                                   [] w = 5 -> "00000" [] OTHER -> "000000"]
        len == IF n < 10 THEN 1 ELSE IF n < 100 THEN 2 ELSE IF n < 1000 THEN 3
               ELSE IF n < 10000 THEN 4 ELSE IF n < 100000 THEN 5 ELSE 6
    IN  IF len >= width THEN s ELSE zeros[width - len] \o s

\* YYYY-MM-DDTHH:MM:SS, then .ffffff unless the microsecond is 0
isoformat(t) ==
    Digits(t.year, 4) \o "-" \o Digits(t.month, 2) \o "-" \o Digits(t.day, 2)
    \o "T" \o Digits(t.hour, 2) \o ":" \o Digits(t.minute, 2) \o ":"
    \o Digits(t.second, 2)
    \o (IF t.microsecond = 0 THEN "" ELSE "." \o Digits(t.microsecond, 6))

\* The wall-clock readings a request may see.
Clock ==
    { [year |-> 2025, month |-> 11, day |-> 3, hour |-> 9, minute |-> 5,
       second |-> 7, microsecond |-> us] : us \in {0, 42} }

----------------------------------------------------------------------------
(* The request inputs. *)

\* JSON bodies of POST /pokemon; a field may be absent.
Bodies ==
    { [name |-> n, type |-> "Electric", power_level |-> 85] : n \in {"Pikachu", ""} }
    \cup { [name |-> "Pikachu", type |-> "", power_level |-> 85] }
    \cup { [name |-> "Pikachu", type |-> "Electric", power_level |-> p] :
             p \in {PowerLevelGe - 1, PowerLevelGe, PowerLevelLe, PowerLevelLe + 1} }
    \cup { [type |-> "Electric", power_level |-> 85],
           [name |-> "Pikachu", power_level |-> 85],
           [name |-> "Pikachu", type |-> "Electric"] }

\* Path parameters of /pokemon/{pokemon_id}.
PathIds == 0..(MaxCreates + 1)

----------------------------------------------------------------------------
(* The Pydantic models. *)

\* a range check without le=100
PowerLevelOk_NoUpperBound(p) == p >= PowerLevelGe

\* power_level: int = Field(..., ge=1, le=100)
PowerLevelOk(p) == p >= PowerLevelGe /\ p <= PowerLevelLe

\* a string field with min_length=1
StrFieldOk_NonEmpty(body, f) == f \in DOMAIN body /\ body[f] \in STRING /\ body[f] # ""

\* name: str = Field(...), type: str = Field(...): required, any string
StrFieldOk(body, f) == f \in DOMAIN body /\ body[f] \in STRING

\* The fields of a body that PokemonCreate rejects.
ValidationErrors(body) ==
    { f \in {"name", "type"} : ~StrFieldOk(body, f) }
    \cup (IF "power_level" \in DOMAIN body /\ PowerLevelOk(body.power_level)
          THEN {} ELSE {"power_level"})

ResponseFields == {"id", "name", "type", "power_level", "created_at"}

\* response_model=PokemonResponse: the reply carries the model's fields
PokemonResponse(rec) == [f \in ResponseFields |-> rec[f]]

\* response_model=List[PokemonResponse]
ResponseList(recs) == [i \in DOMAIN recs |-> PokemonResponse(recs[i])]

----------------------------------------------------------------------------
(* Replies. *)

Reply(op, arg, status, body) == [op |-> op, arg |-> arg, status |-> status, body |-> body]

\* HTTPException(status_code=404, detail=f"Pokemon with ID {pokemon_id} not found")
NotFound(op, id) ==
    Reply(op, id, 404, [detail |-> "Pokemon with ID " \o ToString(id) \o " not found"])

Unprocessable(body) == Reply("create", body, 422, ValidationErrors(body))

Welcome ==
    [message |-> "Welcome to the Pokedex API!",
     endpoints |-> {"GET /pokemon", "GET /pokemon/{id}", "POST /pokemon",
                    "DELETE /pokemon/{id}"},
     docs |-> "Visit /docs for interactive API documentation"]

\* the dict create_pokemon builds
NewPokemon(id, body, now) ==
    [id |-> id, name |-> body.name, type |-> body.type,
     power_level |-> body.power_level, created_at |-> isoformat(now)]

\* a counter that is never advanced
NextCounter_Stuck(n) == n

\* next_id += 1
NextCounter(n) == n + 1

----------------------------------------------------------------------------
(* Requests served one by one: every handler is one step. *)

Init ==
    /\ pokemon_db = <<>>
    /\ next_id = 1
    /\ pc = [t \in Threads |-> "idle"]
    /\ frame = [t \in Threads |-> <<>>]
    /\ reply = Reply("none", 0, 0, <<>>)
    /\ created = <<>>
    /\ removed = <<>>

read_root ==
    /\ reply' = Reply("root", 0, 200, Welcome)
    /\ UNCHANGED <<pokemon_db, next_id, pc, frame, created, removed>>

list_pokemon ==
    /\ reply' = Reply("list", 0, 200, ResponseList(Values(pokemon_db)))
    /\ UNCHANGED <<pokemon_db, next_id, pc, frame, created, removed>>

get_pokemon(pokemon_id) ==
    /\ reply' = IF ~Contains(pokemon_db, pokemon_id)
                THEN NotFound("get", pokemon_id)
                ELSE Reply("get", pokemon_id, 200,
                           PokemonResponse(GetItem(pokemon_db, pokemon_id)))
    /\ UNCHANGED <<pokemon_db, next_id, pc, frame, created, removed>>

\* a create that takes its id before the body is validated
create_rejected_BurnsId(body) ==
    /\ ValidationErrors(body) # {}
    /\ reply' = Unprocessable(body)
    /\ next_id' = NextCounter(next_id)
    /\ UNCHANGED <<pokemon_db, pc, frame, created, removed>>

create_rejected(body) ==
    /\ ValidationErrors(body) # {}
    /\ reply' = Unprocessable(body)
    /\ UNCHANGED <<pokemon_db, next_id, pc, frame, created, removed>>

create_pokemon(body, now) ==
    /\ ValidationErrors(body) = {}
    /\ Len(created) < MaxCreates
    /\ LET new_pokemon == NewPokemon(next_id, body, now)
       IN  /\ pokemon_db' = SetItem(pokemon_db, next_id, new_pokemon)
           /\ next_id' = NextCounter(next_id)
           /\ reply' = Reply("create", body, 201, PokemonResponse(new_pokemon))
           /\ created' = Append(created, PokemonResponse(new_pokemon))
    /\ UNCHANGED <<pc, frame, removed>>

delete_missing(pokemon_id) ==
    /\ ~Contains(pokemon_db, pokemon_id)
    /\ reply' = NotFound("delete", pokemon_id)
    /\ UNCHANGED <<pokemon_db, next_id, pc, frame, created, removed>>

delete_pokemon(pokemon_id) ==
    /\ Contains(pokemon_db, pokemon_id)
    /\ pokemon_db' = DelItem(pokemon_db, pokemon_id)
    /\ reply' = Reply("delete", pokemon_id, 204, <<>>)
    /\ removed' = Append(removed, pokemon_id)
    /\ UNCHANGED <<next_id, pc, frame, created>>

Next ==
    \/ read_root
    \/ list_pokemon
    \/ \E id \in PathIds : get_pokemon(id)
    \/ \E body \in Bodies : create_rejected(body)
    \/ \E body \in Bodies, now \in Clock : create_pokemon(body, now)
    \/ \E id \in PathIds : delete_missing(id)
    \/ \E id \in PathIds : delete_pokemon(id)

Spec == Init /\ [][Next]_vars

----------------------------------------------------------------------------
(* Requests served by worker threads: a handler runs statement by          *)
(* statement, and the statements of different threads interleave. A read   *)
(* or a write of pokemon_db or next_id is one step.                        *)

CreatePcs == {"create_key", "create_store", "create_load", "create_incr"}

\* An exception no handler catches: the runtime answers 500.
ServerError(op, arg) == Reply(op, arg, 500, [detail |-> "Internal Server Error"])

Goto(t, label, locals) ==
    /\ pc' = [pc EXCEPT ![t] = label]
    /\ frame' = [frame EXCEPT ![t] = locals]

Return(t, r) ==
    /\ reply' = r
    /\ Goto(t, "idle", <<>>)

t_read_root(t) ==
    /\ pc[t] = "idle"
    /\ Return(t, Reply("root", 0, 200, Welcome))
    /\ UNCHANGED <<pokemon_db, next_id, created, removed>>

t_list_pokemon(t) ==
    /\ pc[t] = "idle"
    /\ Return(t, Reply("list", 0, 200, ResponseList(Values(pokemon_db))))
    /\ UNCHANGED <<pokemon_db, next_id, created, removed>>

\* if pokemon_id not in pokemon_db: raise HTTPException(404)
t_get_check(t, pokemon_id) ==
    /\ pc[t] = "idle"
    /\ IF ~Contains(pokemon_db, pokemon_id)
       THEN Return(t, NotFound("get", pokemon_id))
       ELSE /\ Goto(t, "get_return", [pokemon_id |-> pokemon_id])
            /\ UNCHANGED reply
    /\ UNCHANGED <<pokemon_db, next_id, created, removed>>

\* return pokemon_db[pokemon_id]: KeyError when the key is gone
t_get_return(t) ==
    /\ pc[t] = "get_return"
    /\ LET pokemon_id == frame[t].pokemon_id
       IN  IF Contains(pokemon_db, pokemon_id)
           THEN Return(t, Reply("get", pokemon_id, 200,
                                PokemonResponse(GetItem(pokemon_db, pokemon_id))))
           ELSE Return(t, ServerError("get", pokemon_id))
    /\ UNCHANGED <<pokemon_db, next_id, created, removed>>

t_create_rejected(t, body) ==
    /\ pc[t] = "idle"
    /\ ValidationErrors(body) # {}
    /\ Return(t, Unprocessable(body))
    /\ UNCHANGED <<pokemon_db, next_id, created, removed>>

\* new_pokemon = {"id": next_id, ..., "created_at": datetime.now().isoformat()}
t_create_build(t, body, now) ==
    /\ pc[t] = "idle"
    /\ ValidationErrors(body) = {}
    /\ Len(created) + Cardinality({u \in Threads : pc[u] \in CreatePcs}) < MaxCreates
    /\ Goto(t, "create_key", [pokemon |-> body,
                              new_pokemon |-> NewPokemon(next_id, body, now)])
    /\ UNCHANGED <<pokemon_db, next_id, reply, created, removed>>

\* pokemon_db[next_id] = new_pokemon: the key is read
t_create_key(t) ==
    /\ pc[t] = "create_key"
    /\ Goto(t, "create_store", [pokemon |-> frame[t].pokemon,
                                new_pokemon |-> frame[t].new_pokemon,
                                key |-> next_id])
    /\ UNCHANGED <<pokemon_db, next_id, reply, created, removed>>

\* pokemon_db[next_id] = new_pokemon: the entry is stored
t_create_store(t) ==
    /\ pc[t] = "create_store"
    /\ pokemon_db' = SetItem(pokemon_db, frame[t].key, frame[t].new_pokemon)
    /\ Goto(t, "create_load", [pokemon |-> frame[t].pokemon,
                               new_pokemon |-> frame[t].new_pokemon])
    /\ UNCHANGED <<next_id, reply, created, removed>>

\* next_id += 1: the counter is read
t_create_load(t) ==
    /\ pc[t] = "create_load"
    /\ Goto(t, "create_incr", [pokemon |-> frame[t].pokemon,
                               new_pokemon |-> frame[t].new_pokemon,
                               loaded |-> next_id])
    /\ UNCHANGED <<pokemon_db, next_id, reply, created, removed>>

\* next_id += 1: the counter is written; return new_pokemon
t_create_incr(t) ==
    /\ pc[t] = "create_incr"
    /\ next_id' = NextCounter(frame[t].loaded)
    /\ Return(t, Reply("create", frame[t].pokemon, 201,
                       PokemonResponse(frame[t].new_pokemon)))
    /\ created' = Append(created, PokemonResponse(frame[t].new_pokemon))
    /\ UNCHANGED <<pokemon_db, removed>>

\* if pokemon_id not in pokemon_db: raise HTTPException(404)
t_delete_check(t, pokemon_id) ==
    /\ pc[t] = "idle"
    /\ IF ~Contains(pokemon_db, pokemon_id)
       THEN Return(t, NotFound("delete", pokemon_id))
       ELSE /\ Goto(t, "delete_del", [pokemon_id |-> pokemon_id])
            /\ UNCHANGED reply
    /\ UNCHANGED <<pokemon_db, next_id, created, removed>>

\* del pokemon_db[pokemon_id]: KeyError when the key is gone
t_delete_del(t) ==
    /\ pc[t] = "delete_del"
    /\ LET pokemon_id == frame[t].pokemon_id
       IN  IF Contains(pokemon_db, pokemon_id)
           THEN /\ pokemon_db' = DelItem(pokemon_db, pokemon_id)
                /\ removed' = Append(removed, pokemon_id)
                /\ Return(t, Reply("delete", pokemon_id, 204, <<>>))
           ELSE /\ Return(t, ServerError("delete", pokemon_id))
                /\ UNCHANGED <<pokemon_db, removed>>
    /\ UNCHANGED <<next_id, created>>

NextConc ==
    \E t \in Threads :
        \/ t_read_root(t)
        \/ t_list_pokemon(t)
        \/ \E id \in PathIds : t_get_check(t, id)
        \/ t_get_return(t)
        \/ \E body \in Bodies : t_create_rejected(t, body)
        \/ \E body \in Bodies, now \in Clock : t_create_build(t, body, now)
        \/ t_create_key(t)
        \/ t_create_store(t)
        \/ t_create_load(t)
        \/ t_create_incr(t)
        \/ \E id \in PathIds : t_delete_check(t, id)
        \/ t_delete_del(t)

SpecConc == Init /\ [][NextConc]_vars

----------------------------------------------------------------------------
(* Properties of the handlers, requests served one by one (Spec).          *)

Ids(seq) == {seq[i].id : i \in DOMAIN seq}

Range(seq) == {seq[i] : i \in DOMAIN seq}

Complete(body) == {"name", "type", "power_level"} \subseteq DOMAIN body

C1_CreateStep ==
    created' # created =>
        LET id == created'[Len(created')].id
        IN  /\ reply'.op = "create" /\ reply'.status = 201 /\ reply'.body.id = id
            /\ created = <<>> => id = 1
            /\ \A i \in DOMAIN created : created[i].id < id
            /\ id \notin Range(removed)

\* C1: every successful Create returns an id strictly greater than every id
\* an earlier Create returned, the first one 1, and never the id of a
\* record that was deleted.
C1_IdsStrictlyIncrease == [][C1_CreateStep]_vars

C1_Witness ==
    /\ reply.op = "create" /\ reply.status = 201
    /\ Len(created) >= 2
    /\ removed # <<>>

\* C2: after N successful Creates and no Delete the N ids are pairwise
\* distinct and List returns exactly the N records the Creates returned;
\* with N = 0 List returns the empty sequence.
C2_ListAfterCreates ==
    (reply.op = "list" /\ removed = <<>>) =>
        /\ reply.status = 200
        /\ Len(reply.body) = Len(created)
        /\ Range(reply.body) = Range(created)
        /\ \A i, j \in DOMAIN created : i # j => created[i].id # created[j].id
        /\ created = <<>> => reply.body = <<>>

C2_Witness ==
    /\ reply.op = "list" /\ removed = <<>>
    /\ Len(created) >= 2
    /\ Len(reply.body) >= 2

\* C3: a Get of an id that Create returned and no Delete removed answers 200
\* with the record Create returned, field by field, whatever happened in
\* between; every stored record is the one its Create returned.
C3_GetReturnsCreated ==
    /\ (reply.op = "get" /\ reply.arg \in Ids(created) \ Range(removed)) =>
           reply.status = 200
    /\ (reply.op = "get" /\ reply.status = 200) =>
           \E i \in DOMAIN created :
               /\ created[i].id = reply.arg
               /\ \A f \in ResponseFields : reply.body[f] = created[i][f]
    /\ \A e \in Range(pokemon_db) :
           \E i \in DOMAIN created :
               /\ created[i].id = e.key
               /\ e.value.id = created[i].id
               /\ e.value.created_at = created[i].created_at

C3_Witness ==
    /\ reply.op = "get" /\ reply.status = 200
    /\ reply.arg = 2
    /\ removed = <<1>>

C4_DeleteStep ==
    removed' # removed =>
        LET id == removed'[Len(removed')]
        IN  /\ reply'.op = "delete" /\ reply'.status = 204 /\ reply'.arg = id
            /\ Contains(pokemon_db, id)
            /\ Keys(pokemon_db') = Keys(pokemon_db) \ {id}
            /\ Len(pokemon_db') = Len(pokemon_db) - 1
            /\ \A k \in Keys(pokemon_db) \ {id} :
                   GetItem(pokemon_db', k) = GetItem(pokemon_db, k)
            /\ next_id' = next_id

C4_Deleted ==
    /\ \A id \in Range(removed) : ~Contains(pokemon_db, id)
    /\ \A i, j \in DOMAIN removed : i # j => removed[i] # removed[j]
    /\ (reply.op = "get" /\ reply.arg \in Range(removed)) => reply.status = 404
    /\ (reply.op = "delete" /\ reply.arg \in Range(removed)) =>
           \/ reply.status = 404
           \/ reply.status = 204 /\ removed[Len(removed)] = reply.arg

\* C4: a Delete of a present id removes that record only and leaves the
\* other records and the counter as they were; from then on the id is
\* absent, a Get or a second Delete of it answers 404, and no id is deleted
\* twice.
C4_DeleteRemoves == [](C4_Deleted) /\ [][C4_DeleteStep]_vars

C4_Witness ==
    /\ reply.op = "delete" /\ reply.status = 404
    /\ reply.arg \in Range(removed)
    /\ pokemon_db # <<>>
    /\ Len(created) >= 2

C5_Range ==
    /\ \A e \in Range(pokemon_db) :
           e.value.power_level >= 1 /\ e.value.power_level <= 100
    /\ (reply.op = "create" /\ "power_level" \in DOMAIN reply.arg) =>
           /\ (reply.arg.power_level < 1 \/ reply.arg.power_level > 100) =>
                  reply.status = 422 /\ "power_level" \in reply.body
           /\ (Complete(reply.arg) /\ reply.arg.power_level \in {1, 100}) =>
                  reply.status = 201 /\ reply.body.power_level = reply.arg.power_level

C5_RejectedStep ==
    (reply'.op = "create" /\ reply'.status = 422) =>
        pokemon_db' = pokemon_db /\ created' = created

\* C5: a Create with a power_level outside [1,100] (0, 101) answers 422 and
\* stores nothing, one with power_level 1 or 100 answers 201, and every
\* stored record has its power_level in [1,100].
C5_PowerLevelRange == [](C5_Range) /\ [][C5_RejectedStep]_vars

C5_Witness ==
    /\ reply.op = "create" /\ reply.status = 422
    /\ "power_level" \in DOMAIN reply.arg /\ reply.arg.power_level = 101
    /\ \E e \in Range(pokemon_db) : e.value.power_level = 100

C6_Required ==
    /\ (reply.op = "create" /\ Complete(reply.arg)
            /\ reply.arg.power_level >= 1 /\ reply.arg.power_level <= 100) =>
           /\ reply.status = 201
           /\ reply.body.name = reply.arg.name
           /\ reply.body.type = reply.arg.type
           /\ Contains(pokemon_db, reply.body.id)
           /\ GetItem(pokemon_db, reply.body.id).name = reply.arg.name
           /\ GetItem(pokemon_db, reply.body.id).type = reply.arg.type
    /\ (reply.op = "create" /\ \E f \in {"name", "type"} : f \notin DOMAIN reply.arg) =>
           reply.status = 422
    /\ \A e \in Range(pokemon_db) : e.value.name \in STRING /\ e.value.type \in STRING

C6_RejectedStep ==
    (reply'.op = "create" /\ reply'.status = 422) => pokemon_db' = pokemon_db

C7_FailedStep ==
    /\ reply'.status \in {404, 422} =>
           pokemon_db' = pokemon_db /\ next_id' = next_id
    /\ (reply'.op \in {"get", "delete"} /\ ~Contains(pokemon_db, reply'.arg)) =>
           reply'.status = 404
    /\ (reply'.op = "create" /\ reply'.status = 201) => reply'.body.id = next_id

\* C7: a request that fails (404 of Get or Delete, 422 of Create) changes
\* neither the collection nor the counter, and a successful Create takes
\* the id the counter held, so a rejected Create consumes no id.
C7_FailureChangesNothing == [][C7_FailedStep]_vars

C7_Witness ==
    /\ reply.op = "create" /\ reply.status = 422
    /\ pokemon_db # <<>>
    /\ next_id = 2

----------------------------------------------------------------------------
(* Properties of the handlers served by interleaved threads (SpecConc).    *)

AllIdle == \A t \in Threads : pc[t] = "idle"

\* C8: after K concurrent successful Creates (and no Delete) the collection
\* holds K records, the K ids returned are pairwise distinct, and the
\* counter has advanced by K.
C8_ConcurrentCreates ==
    (AllIdle /\ removed = <<>>) =>
        /\ Len(pokemon_db) = Len(created)
        /\ \A i, j \in DOMAIN created : i # j => created[i].id # created[j].id
        /\ next_id = 1 + Len(created)

\* C9: every Get ends with 200 or 404 and every Delete with 204 or 404,
\* also when Deletes and Gets of the same id interleave.
C9_SpecifiedOutcomes ==
    /\ reply.op = "get" => reply.status \in {200, 404}
    /\ reply.op = "delete" => reply.status \in {204, 404}

\* C10: in every state, those between the statements of a Create included,
\* every key of the collection maps to a record with that id and is
\* strictly less than the counter.
C10_KeysBelowCounter ==
    \A e \in Range(pokemon_db) : e.value.id = e.key /\ e.key < next_id

====
